---------------------------- MODULE Spec2Model ----------------------------
(***************************************************************************)
(* Model of the Telegram relay bot in src/src/index.js.  The requests of   *)
(* the webhook are processed concurrently and a step of the model is one   *)
(* awaited operation of a handler.  The store is the two tables of         *)
(* src/unnamed/part_000 (users, messages); the platform and the            *)
(* translation service are the environment, whose answers are chosen       *)
(* nondeterministically.                                                   *)
(*                                                                         *)
(* Strings are TLA+ strings, so Len, \o and SubSeq are the JavaScript      *)
(* length, + and substring.  Every UTF-16 code unit of a non-ASCII         *)
(* character of the source is written "#" (the envelope emoji of the       *)
(* header is two code units, "##").                                        *)
(*                                                                         *)
(* An optional JavaScript value is <<>> (undefined / NULL) or <<v>>.       *)
(* Timestamps (created_at, blocked_at) are never read and are left out.    *)
(***************************************************************************)
EXTENDS Integers, Sequences, FiniteSets, TLC

(***************************************************************************)
(* Bounds of the model                                                     *)
(***************************************************************************)
\* message ids a guest chat hands in are 1..MaxGuestMsgId
MaxGuestMsgId == 2
\* the platform numbers the messages of the admin chat 1..MaxAdminMsgId
MaxAdminMsgId == 2

(***************************************************************************)
(* Configuration and constants                                             *)
(***************************************************************************)
\* parseInt(env.ADMIN_USER_ID)
AdminId == 1
\* the admin and two guests
UserIds == {1, 2, 3}
Guests == UserIds \ {AdminId}
GuestMsgIds == 1..MaxGuestMsgId
AdminMsgIds == 1..MaxAdminMsgId

\* Telegram caption limit, and where the truncated caption is cut
CaptionLimit == 1024
CaptionCut == 1021
Ellipsis == "..."

\* the codes of SUPPORTED_LANGS, in the order of the table
SupportedCodes == <<"zh", "en", "ja", "ru">>
SUPPORTED_LANGS == [c \in {"zh", "en", "ja", "ru"} |->
                      CASE c = "zh" -> "Chinese"
                        [] c = "en" -> "English"
                        [] c = "ja" -> "Japanese"
                        [] c = "ru" -> "Russian"]

\* the language the relay compares the sender's language with
AdminLang == "zh"
\* the target language name handed to translateText
AdminLangName == "Chinese"

(***************************************************************************)
(* Optional values                                                         *)
(***************************************************************************)
None == <<>>
Some(v) == <<v>>
IsSome(o) == o # <<>>
Val(o) == o[1]

(***************************************************************************)
(* String helpers: String.prototype.startsWith, indexOf, split             *)
(***************************************************************************)
StartsWith(s, p) == Len(s) >= Len(p) /\ SubSeq(s, 1, Len(p)) = p

\* 1-based position of the first character c of s at or after position i, 0 if none
RECURSIVE IndexFrom(_, _, _)
IndexFrom(s, c, i) ==
    IF i > Len(s) THEN 0
    ELSE IF SubSeq(s, i, i) = c THEN i
    ELSE IndexFrom(s, c, i + 1)

\* s.split(c): the pieces of s between the occurrences of the character c
RECURSIVE SplitFrom(_, _, _)
SplitFrom(s, c, i) ==
    LET j == IndexFrom(s, c, i)
    IN  IF j = 0 THEN <<SubSeq(s, i, Len(s))>>
        ELSE <<SubSeq(s, i, j - 1)>> \o SplitFrom(s, c, j + 1)
Split(s, c) == SplitFrom(s, c, 1)

(***************************************************************************)
(* Texts of the bot                                                        *)
(***************************************************************************)
StartVerifyText == "Please verify you are human by clicking the button below."
StartVerifyMarkup == <<<<[text |-> "# I am Human", callback_data |-> "verify_human"]>>>>
GuestVerifyText == "Please verify you are human first."
GuestVerifyMarkup == <<<<[text |-> "# Verify", callback_data |-> "verify_human"]>>>>
LanguagePromptText == "Please select your language / #####:"
WelcomeText == "Welcome! You can send me messages and I will forward them to the admin."
VerifiedAnswerText == "Verified!"
VerifiedEditText == "# Verified successfully. Now please select your language."
ReplySentText == "# Reply sent."
FailedPrefix == "# Failed to send: "
NotFoundText == "## Could not find original sender for this message (maybe too old)."
TranslationLabel == "\n\n<b>Translation:</b>\n"
LanguageAnswerText(langCode) == "Language set to " \o langCode
LanguageEditText(name) == "# Language set to " \o name \o ". You can now send messages."

\* the header of a relayed message
Header(user, language) ==
    "## <b>New Message</b>\nFrom: <a href=\"tg://user?id=" \o ToString(user.id)
      \o "\">" \o user.first_name \o "</a> (" \o ToString(user.id)
      \o ")\nLang: " \o language

(***************************************************************************)
(* Platform calls                                                          *)
(***************************************************************************)
\* what a call of callTelegram can come to: the platform answers ok:true with
\* a result, it answers ok:false with a description and no result (the
\* promise still resolves), or fetch / response.json() rejects
Outcomes == {"ok", "error", "throw"}

\* the message of the exception of a rejected call
ErrorMessage == "fetch failed"

NoMarkup == <<>>
Payload(method, chat_id, text) ==
    [method |-> method, chat_id |-> chat_id, text |-> text, caption |-> None,
     from_chat_id |-> 0, message_id |-> 0, reply_to_message_id |-> 0,
     parse_mode |-> "", reply_markup |-> NoMarkup, callback_query_id |-> ""]

\* a run of a handler: the calls made so far with their outcomes, the last id
\* the platform gave out in the admin chat, and whether an exception is in flight
NewRun(seq) == [calls |-> <<>>, seq |-> seq, threw |-> FALSE]

\* await callTelegram(method, payload, env), the i-th call of the run taking
\* the outcome oc[i]; a message delivered to the admin chat gets the next id
callTelegram(run, payload, oc) ==
    IF run.threw THEN run
    ELSE LET o == oc[Len(run.calls) + 1]
             numbered == /\ o = "ok"
                         /\ payload.chat_id = AdminId
                         /\ payload.method \in {"sendMessage", "copyMessage"}
             rid == IF numbered THEN run.seq + 1 ELSE 0
         IN  [calls |-> Append(run.calls,
                               [payload |-> payload, outcome |-> o, result_id |-> rid]),
              seq |-> IF numbered THEN rid ELSE run.seq,
              threw |-> (o = "throw")]

\* mutant: sentMsg taken from the first call of the run, the header's
LastResult_First(run) ==
    LET c == run.calls[1]
    IN  IF ~run.threw /\ c.outcome = "ok" THEN Some([message_id |-> c.result_id]) ELSE None

\* the response of the last call of the run: res.result, when there is one
LastResult(run) ==
    LET c == run.calls[Len(run.calls)]
    IN  IF ~run.threw /\ c.outcome = "ok" THEN Some([message_id |-> c.result_id]) ELSE None

\* the keyboard of sendLanguageSelection: the table's buttons, two per row
RECURSIVE Rows(_, _)
Rows(buttons, i) ==
    IF i > Len(buttons) THEN <<>>
    ELSE <<SubSeq(buttons, i, IF i + 1 <= Len(buttons) THEN i + 1 ELSE Len(buttons))>>
           \o Rows(buttons, i + 2)
LanguageKeyboard ==
    Rows([i \in 1..Len(SupportedCodes) |->
            [text |-> SUPPORTED_LANGS[SupportedCodes[i]],
             callback_data |-> "lang_" \o SupportedCodes[i]]], 1)

sendLanguageSelection(run, chatId, oc) ==
    callTelegram(run, [Payload("sendMessage", chatId, LanguagePromptText)
                         EXCEPT !.reply_markup = LanguageKeyboard], oc)

(***************************************************************************)
(* Translation                                                             *)
(***************************************************************************)
\* what the translation service returns for a text
Translated(text) == "[zh] " \o text

\* translateText(text, targetLang, env): the text itself without credentials;
\* with them the content of the service's answer, or the text when the answer
\* has no content or the request fails
translateText(text, targetLang, hasKey, answered) ==
    IF ~hasKey THEN text
    ELSE IF answered THEN Translated(text) ELSE text

(***************************************************************************)
(* Store                                                                   *)
(***************************************************************************)
\* SELECT * FROM users WHERE user_id = ?
getUser(db, userId) == db[userId]

\* the row of the INSERT of upsertUser, the other columns at their defaults
NewRow(user) ==
    [username |-> user.username, first_name |-> user.first_name,
     is_verified |-> 0, language |-> None, is_blocked |-> 0]

\* upsertUser after its getUser has returned existing, on the table db as it
\* is by then: the INSERT when no row was read, which the primary key of the
\* users table refuses when the row is there by now, else the UPDATE of the
\* two names when they differ from those read.  Gives the rows afterwards,
\* the value returned (for a new user the object {is_new: true}, otherwise
\* the row as it was read) and whether the INSERT threw.
upsertUser(db, user, existing) ==
    IF ~IsSome(existing)
    THEN IF IsSome(db[user.id])
         THEN [db |-> db, ret |-> [is_new |-> TRUE], failed |-> TRUE]
         ELSE [db |-> [db EXCEPT ![user.id] = Some(NewRow(user))],
               ret |-> [is_new |-> TRUE], failed |-> FALSE]
    ELSE [db |-> IF \/ Val(existing).username # user.username
                    \/ Val(existing).first_name # user.first_name
                 THEN [db EXCEPT ![user.id] =
                         Some([Val(db[user.id]) EXCEPT !.username = user.username,
                                                      !.first_name = user.first_name])]
                 ELSE db,
          ret |-> Val(existing), failed |-> FALSE]

\* mutant: the blocked check dropped
Truthy_is_blocked_Never(dbUser) == FALSE

\* the truth of dbUser.is_blocked, dbUser.is_verified and dbUser.language; a
\* field that the object does not have is undefined
Truthy_is_blocked(dbUser) == "is_blocked" \in DOMAIN dbUser /\ dbUser.is_blocked # 0
Truthy_is_verified(dbUser) == "is_verified" \in DOMAIN dbUser /\ dbUser.is_verified # 0
Truthy_language(dbUser) ==
    /\ "language" \in DOMAIN dbUser
    /\ IsSome(dbUser.language)
    /\ Val(dbUser.language) # ""

\* mutant: the user id and the guest's message id bound in the wrong order
saveMessageMapping_Swapped(msgs, adminMsgId, userId, guestMsgId) ==
    Append(msgs, [admin_message_id |-> adminMsgId, user_id |-> guestMsgId,
                  guest_message_id |-> userId])

\* INSERT INTO messages (admin_message_id, user_id, guest_message_id, ...)
saveMessageMapping(msgs, adminMsgId, userId, guestMsgId) ==
    Append(msgs, [admin_message_id |-> adminMsgId, user_id |-> userId,
                  guest_message_id |-> guestMsgId])

\* mutant: the WHERE clause dropped, the first row of the table is returned
FirstMatch_AnyRow(msgs, adminMsgId, i) ==
    IF i > Len(msgs) THEN None
    ELSE Some([user_id |-> msgs[i].user_id, guest_message_id |-> msgs[i].guest_message_id])

\* SELECT user_id, guest_message_id FROM messages WHERE admin_message_id = ?
\* .first(): the first matching row, or null
RECURSIVE FirstMatch(_, _, _)
FirstMatch(msgs, adminMsgId, i) ==
    IF i > Len(msgs) THEN None
    ELSE IF msgs[i].admin_message_id = adminMsgId
         THEN Some([user_id |-> msgs[i].user_id,
                    guest_message_id |-> msgs[i].guest_message_id])
         ELSE FirstMatch(msgs, adminMsgId, i + 1)
getOriginalSender(msgs, adminMsgId) == FirstMatch(msgs, adminMsgId, 1)

(***************************************************************************)
(* Handlers.  What a handler does between and after its reads of the       *)
(* store, given what it has read: db and msgs are the users and messages   *)
(* tables, seq the last id of the admin chat, oc the outcomes of its calls *)
(* to the platform in order.  The result is the tables afterwards, the run *)
(* of calls and the invocations of translateText.                          *)
(***************************************************************************)
Result(db, msgs, run, trans) ==
    [db |-> db, msgs |-> msgs, run |-> run, trans |-> trans]

\* handleStart after its upsertUser and getUser: the prompt for the row read
StartPrompt(run0, user, userData, oc) ==
    IF userData.is_verified = 0
    THEN callTelegram(run0, [Payload("sendMessage", user.id, StartVerifyText)
                               EXCEPT !.reply_markup = StartVerifyMarkup], oc)
    ELSE IF ~Truthy_language(userData)
    THEN sendLanguageSelection(run0, user.id, oc)
    ELSE callTelegram(run0, Payload("sendMessage", user.id, WelcomeText), oc)

\* mutant: the flag flipped instead of set
SetVerified_Toggle(db, userId) ==
    IF IsSome(db[userId])
    THEN [db EXCEPT ![userId] =
            Some([Val(db[userId]) EXCEPT !.is_verified = 1 - Val(db[userId]).is_verified])]
    ELSE db

\* UPDATE users SET is_verified = 1 WHERE user_id = ?
SetVerified(db, userId) ==
    IF IsSome(db[userId])
    THEN [db EXCEPT ![userId] = Some([Val(db[userId]) EXCEPT !.is_verified = 1])]
    ELSE db

\* mutant: the language not written
SetLanguage_Keep(db, userId, langCode) == db

\* UPDATE users SET language = ? WHERE user_id = ?
SetLanguage(db, userId, langCode) ==
    IF IsSome(db[userId])
    THEN [db EXCEPT ![userId] = Some([Val(db[userId]) EXCEPT !.language = Some(langCode)])]
    ELSE db

\* the properties every object literal inherits from Object.prototype whose
\* names have no underscore (a code never has one: data.split('_')[1]), and
\* what such a function gives in a template literal
ObjectPrototype ==
    {"constructor", "hasOwnProperty", "isPrototypeOf", "propertyIsEnumerable",
     "toLocaleString", "toString", "valueOf"}
NativeFunction(property) ==
    "function " \o (IF property = "constructor" THEN "Object" ELSE property)
      \o "() { [native code] }"

\* SUPPORTED_LANGS[langCode] || langCode: the table's name of the code, an
\* inherited property of the table under that name, or the code itself
LanguageName(langCode) ==
    IF langCode \in DOMAIN SUPPORTED_LANGS THEN SUPPORTED_LANGS[langCode]
    ELSE IF langCode \in ObjectPrototype THEN NativeFunction(langCode)
    ELSE langCode

\* handleCallback: the UPDATE of its branch on the table db, and its calls
handleCallback(db, msgs, seq, callback, oc) ==
    LET data == callback.data
        user == callback.from
        run0 == NewRun(seq)
    IN  IF data = "verify_human"
        THEN LET r1 == callTelegram(run0, [Payload("answerCallbackQuery", 0, VerifiedAnswerText)
                                             EXCEPT !.callback_query_id = callback.id], oc)
                 r2 == callTelegram(r1, [Payload("editMessageText", user.id, VerifiedEditText)
                                           EXCEPT !.message_id = callback.message_id], oc)
                 r3 == sendLanguageSelection(r2, user.id, oc)
             IN  Result(SetVerified(db, user.id), msgs, r3, <<>>)
        ELSE IF StartsWith(data, "lang_")
        THEN LET langCode == Split(data, "_")[2]
                 r1 == callTelegram(run0, [Payload("answerCallbackQuery", 0,
                                                   LanguageAnswerText(langCode))
                                             EXCEPT !.callback_query_id = callback.id], oc)
                 r2 == callTelegram(r1, [Payload("editMessageText", user.id,
                                                 LanguageEditText(LanguageName(langCode)))
                                           EXCEPT !.message_id = callback.message_id], oc)
             IN  Result(SetLanguage(db, user.id, langCode), msgs, r2, <<>>)
        ELSE Result(db, msgs, run0, <<>>)

\* the admin's branch of handlePrivateMessage for a reply, after its
\* getOriginalSender has returned original
AdminReply(db, msgs, seq, message, original, oc) ==
    LET run0 == NewRun(seq)
        Notice(text) == [Payload("sendMessage", AdminId, text)
                           EXCEPT !.reply_to_message_id = message.message_id]
    IN           IF IsSome(original)
                 THEN LET t1 == callTelegram(run0,
                                   [Payload("copyMessage", Val(original).user_id, "")
                                      EXCEPT !.from_chat_id = message.chat_id,
                                             !.message_id = message.message_id], oc)
                          t2 == callTelegram(t1, Notice(ReplySentText), oc)
                          \* catch (e): the exception is handled and the notice sent
                          run == IF t2.threw
                                 THEN callTelegram([t2 EXCEPT !.threw = FALSE],
                                                   Notice(FailedPrefix \o ErrorMessage), oc)
                                 ELSE t2
                      IN  Result(db, msgs, run, <<>>)
                 ELSE Result(db, msgs, callTelegram(run0, Notice(NotFoundText), oc),
                             <<>>)

\* mutant: no message counts as media
isMedia_Never(message) == FALSE

\* if (message.text), and message.photo || message.video || ...
Truthy_text(message) == IsSome(message.text) /\ Val(message.text) # ""
isMedia(message) == IsSome(message.media)

\* mutant: the caption cut at the limit, the ellipsis added after it
NewCaption_CutAtLimit(header, message) ==
    LET newCaption == header \o "\n\n"
                        \o (IF IsSome(message.caption) THEN Val(message.caption) ELSE "")
    IN  IF Len(newCaption) > CaptionLimit
        THEN SubSeq(newCaption, 1, CaptionLimit) \o Ellipsis
        ELSE newCaption

\* the caption of a relayed media message
NewCaption(header, message) ==
    LET newCaption == header \o "\n\n"
                        \o (IF IsSome(message.caption) THEN Val(message.caption) ELSE "")
    IN  IF Len(newCaption) > CaptionLimit
        THEN SubSeq(newCaption, 1, CaptionCut) \o Ellipsis
        ELSE newCaption

\* mutant: the translation made whatever the sender's language
FinalText_AlwaysTranslate(header, originalText, language, hasKey, answered) ==
    [text |-> header \o "\n\n" \o originalText \o TranslationLabel
                \o translateText(originalText, AdminLangName, hasKey, answered),
     trans |-> <<[text |-> originalText, targetLang |-> AdminLangName]>>]

\* the text of a relayed text message, and the invocations of translateText
\* made to build it
FinalText(header, originalText, language, hasKey, answered) ==
    LET finalText == header \o "\n\n" \o originalText
    IN  IF language # AdminLang
        THEN [text |-> finalText \o TranslationLabel
                         \o translateText(originalText, AdminLangName, hasKey, answered),
              trans |-> <<[text |-> originalText, targetLang |-> AdminLangName]>>]
        ELSE [text |-> finalText, trans |-> <<>>]

\* the relay of handlePrivateMessage: Forward to Admin
Relay(db, msgs, seq, message, language, hasKey, answered, oc) ==
    LET user == message.from
        header == Header(user, language)
        run0 == NewRun(seq)
        final == FinalText(header, Val(message.text), language, hasKey, answered)
        trans == IF Truthy_text(message) THEN final.trans ELSE <<>>
        run == IF Truthy_text(message)
               THEN callTelegram(run0,
                      [Payload("sendMessage", AdminId, final.text)
                         EXCEPT !.parse_mode = "HTML"], oc)
               ELSE IF isMedia(message)
               THEN callTelegram(run0,
                      [Payload("copyMessage", AdminId, "")
                         EXCEPT !.from_chat_id = user.id,
                                !.message_id = message.message_id,
                                !.caption = Some(NewCaption(header, message)),
                                !.parse_mode = "HTML"], oc)
               ELSE callTelegram(
                      callTelegram(run0, [Payload("sendMessage", AdminId, header)
                                            EXCEPT !.parse_mode = "HTML"], oc),
                      [Payload("copyMessage", AdminId, "")
                         EXCEPT !.from_chat_id = user.id,
                                !.message_id = message.message_id], oc)
        sentMsg == LastResult(run)
    IN  IF ~run.threw /\ IsSome(sentMsg)
        THEN Result(db, saveMessageMapping(msgs, Val(sentMsg).message_id, user.id,
                                           message.message_id), run, trans)
        ELSE Result(db, msgs, run, trans)

\* the guest's branch of handlePrivateMessage after its upsertUser, which
\* left the users table db and returned dbUser
GuestMessage(db, msgs, seq, message, dbUser, hasKey, answered, oc) ==
    LET user == message.from
        run0 == NewRun(seq)
    IN  IF Truthy_is_blocked(dbUser)
        THEN Result(db, msgs, run0, <<>>)
        ELSE IF ~Truthy_is_verified(dbUser)
        THEN Result(db, msgs,
                    callTelegram(run0,
                        [Payload("sendMessage", user.id, GuestVerifyText)
                           EXCEPT !.reply_markup = GuestVerifyMarkup], oc),
                    <<>>)
        ELSE IF ~Truthy_language(dbUser)
        THEN Result(db, msgs, sendLanguageSelection(run0, user.id, oc), <<>>)
        ELSE Relay(db, msgs, seq, message, Val(dbUser.language), hasKey, answered, oc)

(***************************************************************************)
(* State.  The worker processes the requests of the webhook concurrently:  *)
(* a handler runs until an await and other requests run before it goes on. *)
(* A unit of work is one request in progress; each of its steps is one     *)
(* awaited operation: a statement of the store, a call to the platform, a  *)
(* request to the translation service.                                     *)
(***************************************************************************)
VARIABLES
    users,      \* the users table: user id -> its row, or None
    messages,   \* the messages table: the rows in insertion order
    adminSeq,   \* the id of the last message the platform delivered to the admin chat
    hasKey,     \* whether env.SILICONFLOW_API_KEY is set
    out,        \* the update whose processing ended in the last step, and
                \* what processing it did
    relayed,    \* the guest messages recorded so far: for each the id the
                \* delivery returned, the sender and the message's own id
    units       \* the units of work: for each the update, the await it is
                \* at, what it has read and the calls it has made

vars == <<users, messages, adminSeq, hasKey, out, relayed, units>>

\* the requests in progress together
MaxUnits == 2
\* the calls to the platform a handler makes at most (handleCallback: three)
MaxCalls == 3

Sender(id, first_name) ==
    [id |-> id, username |-> "user" \o ToString(id), first_name |-> first_name]

Update(from, message_id, text, media, caption, reply_to_message, id, data) ==
    [from |-> from, chat_id |-> from.id, message_id |-> message_id, text |-> text,
     media |-> media, caption |-> caption, reply_to_message |-> reply_to_message,
     id |-> id, data |-> data]

NoUpdate == Update(Sender(AdminId, ""), 0, None, None, None, None, "", "")

\* a unit that processes no request
IdleUnit ==
    [type |-> "idle", update |-> NoUpdate, pc |-> "idle", existing |-> None,
     dbUser |-> None, userData |-> None, original |-> None, answered |-> FALSE,
     calls |-> <<>>, prior |-> None, after |-> None]

\* out after a step that ended no request
Idle(type) ==
    [type |-> type, update |-> NoUpdate, before |-> None, prior |-> None,
     after |-> None, userData |-> None, calls |-> <<>>, threw |-> FALSE,
     error |-> "", trans |-> <<>>, saved |-> <<>>]

\* out after the step that ended a unit's request: the sender's row as the
\* handler read it, as it was just before and just after the handler's
\* statement on it, and as handleStart read it again; the platform calls with
\* their outcomes; whether an exception reached the webhook's catch and from
\* where; the invocations of translateText; the rows the messages table gained
Out(unit, threw, error, trans, saved) ==
    [type |-> unit.type, update |-> unit.update, before |-> unit.existing,
     prior |-> unit.prior, after |-> unit.after, userData |-> unit.userData,
     calls |-> unit.calls, threw |-> threw, error |-> error, trans |-> trans,
     saved |-> saved]

\* the calls of a run that carry the update's own content to the admin: the
\* text message of a text, the copy of any other message
PayloadCalls(update, calls) ==
    {i \in DOMAIN calls :
        /\ calls[i].payload.chat_id = AdminId
        /\ update.from.id # AdminId
        /\ \/ calls[i].payload.method = "sendMessage" /\ Truthy_text(update)
           \/ /\ calls[i].payload.method = "copyMessage"
              /\ calls[i].payload.from_chat_id = update.from.id
              /\ calls[i].payload.message_id = update.message_id}

Delivered(type, update, calls) ==
    IF type = "message"
    THEN {[relayId |-> calls[i].result_id, userId |-> update.from.id,
           messageId |-> update.message_id] :
             i \in {j \in PayloadCalls(update, calls) : calls[j].outcome = "ok"}}
    ELSE {}

\* update.message.text && update.message.text.startsWith('/start')
IsStartCommand(message) == Truthy_text(message) /\ StartsWith(Val(message.text), "/start")

\* the webhook's dispatch: update.message with or without the command, or
\* update.callback_query
TypeOf(update) ==
    IF update.id # "" THEN "callback"
    ELSE IF IsStartCommand(update) THEN "start"
    ELSE "message"

\* the outcomes ocs of the calls made so far, the calls to come taken to succeed
Padded(ocs) == [i \in 1..MaxCalls |-> IF i <= Len(ocs) THEN ocs[i] ELSE "ok"]
OutcomesOf(calls) == [i \in DOMAIN calls |-> calls[i].outcome]

\* what a unit's handler does with what the unit has read, when its calls so
\* far came out as ocs: the calls it makes, in order, and whether it records
Rest(unit, ocs) ==
    LET update == unit.update
        oc == Padded(ocs)
    IN  IF unit.type = "start"
        THEN Result(users, <<>>,
                    StartPrompt(NewRun(0), update.from, Val(unit.userData), oc), <<>>)
        ELSE IF unit.type = "callback"
        THEN handleCallback(users, <<>>, 0, update, oc)
        ELSE IF update.from.id = AdminId
        THEN AdminReply(users, <<>>, 0, update, unit.original, oc)
        ELSE GuestMessage(users, <<>>, 0, update, Val(unit.dbUser), hasKey,
                          unit.answered, oc)

\* a step of unit p that leaves its request in progress, or ends it
Continue(p, unit) ==
    /\ units' = [units EXCEPT ![p] = unit]
    /\ out' = Idle("step")
Finish(p, obs) ==
    /\ units' = [units EXCEPT ![p] = IdleUnit]
    /\ out' = obs

\* the unit goes on to its calls, or ends when its handler makes none
ToCalls(p, unit) ==
    IF Rest(unit, <<>>).run.calls = <<>>
    THEN Finish(p, Out(unit, FALSE, "", <<>>, <<>>))
    ELSE Continue(p, [unit EXCEPT !.pc = "send"])

\* POST /webhook with an update of U: the handler runs to its first await,
\* or to its end when it has none (a message of the admin that replies to
\* nothing, a callback_query with another action)
Webhook(U) ==
    \E update \in U, p \in DOMAIN units :
        LET unit == [IdleUnit EXCEPT !.type = TypeOf(update), !.update = update]
        IN  /\ units[p].pc = "idle"
            /\ \A q \in DOMAIN units : units[q].pc = "idle" => p <= q
            /\ IF unit.type = "callback"
               THEN IF handleCallback(users, <<>>, 0, update, Padded(<<>>)).run.calls = <<>>
                    THEN Finish(p, Out(unit, FALSE, "", <<>>, <<>>))
                    ELSE Continue(p, [unit EXCEPT !.pc = "update"])
               ELSE IF unit.type = "message" /\ update.from.id = AdminId
               THEN IF IsSome(update.reply_to_message)
                    THEN Continue(p, [unit EXCEPT !.pc = "lookup"])
                    ELSE Finish(p, Out(unit, FALSE, "", <<>>, <<>>))
               ELSE Continue(p, [unit EXCEPT !.pc = "getUser"])
            /\ UNCHANGED <<users, messages, adminSeq, hasKey, relayed>>

\* upsertUser: const existing = await getUser(db, user.id)
GetUser(p) ==
    LET unit == units[p]
    IN  /\ unit.pc = "getUser"
        /\ Continue(p, [unit EXCEPT !.existing = getUser(users, unit.update.from.id),
                                    !.pc = "write"])
        /\ UNCHANGED <<users, messages, adminSeq, hasKey, relayed>>

\* upsertUser: its INSERT or UPDATE.  A refused INSERT throws, to the
\* webhook's catch.  After it handleStart reads the row again, and the
\* guest's branch of handlePrivateMessage returns, asks for the translation
\* or makes its first call.
Write(p) ==
    LET unit == units[p]
        user == unit.update.from
        up == upsertUser(users, user, unit.existing)
        wrote == [unit EXCEPT !.dbUser = Some(up.ret), !.prior = users[user.id],
                              !.after = up.db[user.id]]
    IN  /\ unit.pc = "write"
        /\ users' = up.db
        /\ IF up.failed
           THEN Finish(p, Out([unit EXCEPT !.prior = users[user.id],
                                           !.after = users[user.id]],
                              TRUE, "store", <<>>, <<>>))
           ELSE IF unit.type = "start"
           THEN Continue(p, [wrote EXCEPT !.pc = "reread"])
           ELSE IF Rest(wrote, <<>>).trans # <<>>
           THEN Continue(p, [wrote EXCEPT !.pc = "translate"])
           ELSE ToCalls(p, wrote)
        /\ UNCHANGED <<messages, adminSeq, hasKey, relayed>>

\* handleStart: const userData = await getUser(env.DB, user.id)
Reread(p) ==
    LET unit == units[p]
    IN  /\ unit.pc = "reread"
        /\ ToCalls(p, [unit EXCEPT !.userData = getUser(users, unit.update.from.id)])
        /\ UNCHANGED <<users, messages, adminSeq, hasKey, relayed>>

\* handlePrivateMessage: const original = await getOriginalSender(db, ...)
Lookup(p) ==
    LET unit == units[p]
    IN  /\ unit.pc = "lookup"
        /\ ToCalls(p, [unit EXCEPT !.original =
                         getOriginalSender(messages, Val(unit.update.reply_to_message))])
        /\ UNCHANGED <<users, messages, adminSeq, hasKey, relayed>>

\* handleCallback: the UPDATE of its branch
UpdateRow(p) ==
    LET unit == units[p]
        u == unit.update.from.id
        db == handleCallback(users, <<>>, 0, unit.update, Padded(<<>>)).db
    IN  /\ unit.pc = "update"
        /\ users' = db
        /\ ToCalls(p, [unit EXCEPT !.existing = users[u], !.prior = users[u],
                                   !.after = db[u]])
        /\ UNCHANGED <<messages, adminSeq, hasKey, relayed>>

\* handlePrivateMessage: const translated = await translateText(...), which
\* the service answers or not when the key is set
Translate(p) ==
    LET unit == units[p]
    IN  /\ unit.pc = "translate"
        /\ \E answered \in (IF hasKey THEN BOOLEAN ELSE {FALSE}) :
               ToCalls(p, [unit EXCEPT !.answered = answered])
        /\ UNCHANGED <<users, messages, adminSeq, hasKey, relayed>>

\* the next await callTelegram(...) of the handler: the platform numbers a
\* message it delivers to the admin chat as the chat stands by then.  After
\* the last call the handler returns, or throws to the webhook's catch, or
\* goes on to record the mapping.  O: the outcomes the platform's calls have.
Send(p, O) ==
    LET unit == units[p]
        i == Len(unit.calls) + 1
    IN  /\ unit.pc = "send"
        /\ \E o \in O :
             LET ocs == [j \in 1..i |-> IF j < i THEN unit.calls[j].outcome ELSE o]
                 tail == Rest(unit, ocs)
                 run == callTelegram([calls |-> unit.calls, seq |-> adminSeq,
                                      threw |-> FALSE],
                                     tail.run.calls[i].payload, Padded(ocs))
                 sent == [unit EXCEPT !.calls = run.calls]
             IN  /\ run.seq <= MaxAdminMsgId
                 /\ adminSeq' = run.seq
                 /\ IF Len(tail.run.calls) > i
                    THEN Continue(p, sent)
                    ELSE IF tail.msgs # <<>>
                    THEN Continue(p, [sent EXCEPT !.pc = "save"])
                    ELSE Finish(p, Out(sent, tail.run.threw,
                                       IF tail.run.threw THEN "platform" ELSE "",
                                       tail.trans, <<>>))
        /\ UNCHANGED <<users, messages, hasKey, relayed>>

\* handlePrivateMessage: await saveMessageMapping(db, sentMsg.message_id, ...)
Save(p) ==
    LET unit == units[p]
        update == unit.update
        sentMsg == LastResult([calls |-> unit.calls, seq |-> adminSeq, threw |-> FALSE])
    IN  /\ unit.pc = "save"
        /\ messages' = saveMessageMapping(messages, Val(sentMsg).message_id,
                                          update.from.id, update.message_id)
        /\ relayed' = relayed \cup Delivered(unit.type, update, unit.calls)
        /\ Finish(p, Out(unit, FALSE, "", Rest(unit, OutcomesOf(unit.calls)).trans,
                         SubSeq(messages', Len(messages) + 1, Len(messages'))))
        /\ UNCHANGED <<users, adminSeq, hasKey>>

\* no request in progress
NoUnits == [p \in 1..MaxUnits |-> IdleUnit]

\* the administrative action outside the bot that blocks a guest
Block ==
    \E u \in Guests :
        /\ IsSome(users[u])
        /\ Val(users[u]).is_blocked = 0
        /\ users' = [users EXCEPT ![u] = Some([Val(users[u]) EXCEPT !.is_blocked = 1])]
        /\ out' = Idle("block")
        /\ UNCHANGED <<messages, adminSeq, hasKey, relayed, units>>

(***************************************************************************)
(* Spec: the bot from its empty store.  One guest goes through onboarding  *)
(* and sends the command and texts, pressing the buttons in any order and  *)
(* more than once; the guest can be blocked.  The platform delivers a call *)
(* or the call throws.                                                     *)
(***************************************************************************)
\* the guest whose onboarding Spec follows
Newcomer == CHOOSE u \in Guests : \A v \in Guests : u <= v

Plain(from, message_id, text) == Update(from, message_id, text, None, None, None, "", "")
Media(from, message_id, caption) ==
    Update(from, message_id, None, Some("photo"), caption, None, "", "")

\* the command and a text
NewcomerMessages ==
    {Plain(Sender(Newcomer, "Al"), 1, Some(t)) : t \in {"/start", "Hello"}}

\* the action of the verification button and of a language button
CallbackDatas == {"verify_human", "lang_en"}
Callbacks(D) ==
    {Update(Sender(Newcomer, "Al"), 1, None, None, None, None, "cb", d) : d \in D}

Init ==
    /\ users = [u \in UserIds |-> None]
    /\ messages = <<>>
    /\ adminSeq = 0
    /\ hasKey = FALSE
    /\ out = Idle("init")
    /\ relayed = {}
    /\ units = NoUnits

Next ==
    \/ Webhook(NewcomerMessages \cup Callbacks(CallbackDatas))
    \/ \E p \in DOMAIN units : GetUser(p)
    \/ \E p \in DOMAIN units : Write(p)
    \/ \E p \in DOMAIN units : Reread(p)
    \/ \E p \in DOMAIN units : UpdateRow(p)
    \/ \E p \in DOMAIN units : Translate(p)
    \/ \E p \in DOMAIN units : Send(p, {"ok", "throw"})
    \/ \E p \in DOMAIN units : Save(p)
    \/ Block

Spec == Init /\ [][Next]_vars

(***************************************************************************)
(* RelaySpec: the traffic of two onboarded guests and the admin.  The      *)
(* store is the one their onboarding leaves; the guests send texts and a   *)
(* sticker, the admin sends commands, messages and replies.                *)
(***************************************************************************)
Ready(user, language) ==
    Some([NewRow(user) EXCEPT !.is_verified = 1, !.language = Some(language)])

Regular(u) == Sender(u, IF u = 2 THEN "Al" ELSE "<3")
RegularLanguage(u) == IF u = 2 THEN "en" ELSE "zh"
\* the id of a guest's message in the guest's chat
RegularMessageId(u) == u - 1

\* a text of each guest, and a sticker of the first
GuestMessages ==
    {Plain(Regular(u), RegularMessageId(u), Some("Hello")) : u \in Guests}
      \cup {Plain(Regular(Newcomer), RegularMessageId(Newcomer), None)}

\* what the admin sends: a text that replies to a message of the admin chat
\* or to none, and the command as a reply
AdminMessages ==
    {Update(Sender(AdminId, "Boss"), 1, Some("Hello"), None, None, r, "", "") :
        r \in {None} \cup {Some(k) : k \in AdminMsgIds}}
      \cup {Update(Sender(AdminId, "Boss"), 1, Some("/start"), None, None, Some(1), "", "")}

RelayInit ==
    /\ users = [u \in UserIds |->
                  IF u = AdminId THEN None ELSE Ready(Regular(u), RegularLanguage(u))]
    /\ messages = <<>>
    /\ adminSeq = 0
    /\ hasKey = FALSE
    /\ out = Idle("init")
    /\ relayed = {}
    /\ units = NoUnits

RelayNext ==
    \/ Webhook(GuestMessages \cup AdminMessages)
    \/ \E p \in DOMAIN units : GetUser(p)
    \/ \E p \in DOMAIN units : Write(p)
    \/ \E p \in DOMAIN units : Reread(p)
    \/ \E p \in DOMAIN units : Lookup(p)
    \/ \E p \in DOMAIN units : Translate(p)
    \/ \E p \in DOMAIN units : Send(p, Outcomes)
    \/ \E p \in DOMAIN units : Save(p)

RelaySpec == RelayInit /\ [][RelayNext]_vars

(***************************************************************************)
(* FormatSpec: what the relay makes of a message.  An onboarded guest with *)
(* the admin's language or another sends a text, a sticker, and photos     *)
(* with captions around the caption limit.                                 *)
(***************************************************************************)
Languages == {"zh", "en"}

\* a long text to cut captions from
Chunk == "0123456789abcdefghijklmnopqrstuvwxyzABCDEFGHIJKLMNOPQRSTUVWXYZ-+"
Chunk4 == Chunk \o Chunk \o Chunk \o Chunk
Filler == Chunk4 \o Chunk4 \o Chunk4 \o Chunk4 \o Chunk4
\* no caption, a short one, and those that bring header + blank line + caption
\* onto and just above the caption limit
HeaderLen == Len(Header(Sender(Newcomer, "Al"), "zh"))
Captions ==
    {None, Some("cat")}
      \cup {Some(SubSeq(Filler, 1, CaptionLimit - HeaderLen - 2 + d)) : d \in 0..1}

FormatMessages ==
    {Plain(Sender(Newcomer, "Al"), 1, Some("Hello")), Plain(Sender(Newcomer, "Al"), 1, None)}
      \cup {Media(Sender(Newcomer, "Al"), 1, c) : c \in Captions}

FormatInit ==
    /\ \E l \in Languages :
         users = [u \in UserIds |->
                    IF u = Newcomer THEN Ready(Sender(Newcomer, "Al"), l) ELSE None]
    /\ messages = <<>>
    /\ adminSeq = 0
    /\ hasKey \in BOOLEAN
    /\ out = Idle("init")
    /\ relayed = {}
    /\ units = NoUnits

\* one relay: the updates stop once something has reached the admin
FormatNext ==
    \/ adminSeq = 0 /\ Webhook(FormatMessages)
    \/ \E p \in DOMAIN units : GetUser(p)
    \/ \E p \in DOMAIN units : Write(p)
    \/ \E p \in DOMAIN units : Translate(p)
    \/ \E p \in DOMAIN units : Send(p, Outcomes)
    \/ \E p \in DOMAIN units : Save(p)

FormatSpec == FormatInit /\ [][FormatNext]_vars

(***************************************************************************)
(* RecordSpec: the record operation of the messages table on its own,      *)
(* applied to any key, user and message id: also to a key the table holds. *)
(***************************************************************************)
\* the rows the table grows to
MaxRows == 3

\* saveMessageMapping(db, k, u, m)
Record ==
    \E k \in AdminMsgIds, u \in Guests, m \in GuestMsgIds :
        /\ Len(messages) < MaxRows
        /\ messages' = saveMessageMapping(messages, k, u, m)
        /\ out' = [Idle("record") EXCEPT
                     !.saved = SubSeq(messages', Len(messages) + 1, Len(messages'))]
        /\ UNCHANGED <<users, adminSeq, hasKey, relayed, units>>

RecordInit ==
    /\ users = [u \in UserIds |-> None]
    /\ messages = <<>>
    /\ adminSeq = 0
    /\ hasKey = FALSE
    /\ out = Idle("init")
    /\ relayed = {}
    /\ units = NoUnits

RecordNext == Record

RecordSpec == RecordInit /\ [][RecordNext]_vars

(***************************************************************************)
(* UpsertSpec: updates of one user the bot has not seen, processed         *)
(* concurrently: the command and a text, under one name and under another. *)
(***************************************************************************)
UnitUpdates ==
    {Plain(Sender(Newcomer, n), 1, Some(t)) :
        n \in {"Al", "Alexandra"}, t \in {"/start", "Hello"}}

UpsertInit ==
    /\ users = [u \in UserIds |-> None]
    /\ messages = <<>>
    /\ adminSeq = 0
    /\ hasKey = FALSE
    /\ out = Idle("init")
    /\ relayed = {}
    /\ units = NoUnits

UpsertNext ==
    \/ Webhook(UnitUpdates)
    \/ \E p \in DOMAIN units : GetUser(p)
    \/ \E p \in DOMAIN units : Write(p)
    \/ \E p \in DOMAIN units : Reread(p)
    \/ \E p \in DOMAIN units : Send(p, Outcomes)

UpsertSpec == UpsertInit /\ [][UpsertNext]_vars

(***************************************************************************)
(* LanguageSpec: a verified guest chooses a language, by the buttons and   *)
(* by action strings no button carries, more than once and concurrently.   *)
(***************************************************************************)
\* a code of the table, no code, a code with an underscore, a name every
\* object has, and an action that is none of the bot's
LanguageDatas == {"lang_en", "lang_", "lang_x_y", "lang_constructor", "noop"}

LanguageInit ==
    /\ users = [u \in UserIds |->
                  IF u = Newcomer
                  THEN Some([NewRow(Sender(Newcomer, "Al")) EXCEPT !.is_verified = 1])
                  ELSE None]
    /\ messages = <<>>
    /\ adminSeq = 0
    /\ hasKey = FALSE
    /\ out = Idle("init")
    /\ relayed = {}
    /\ units = NoUnits

LanguageNext ==
    \/ Webhook(Callbacks(LanguageDatas))
    \/ \E p \in DOMAIN units : UpdateRow(p)
    \/ \E p \in DOMAIN units : Send(p, Outcomes)

LanguageSpec == LanguageInit /\ [][LanguageNext]_vars

(***************************************************************************)
(* What the update did whose processing has just ended                     *)
(***************************************************************************)
\* the last update was a message of a guest that was not the /start command
GuestMessageEvent == out.type = "message" /\ out.update.from.id # AdminId
\* the last update was a message of the admin that replies to a message
AdminReplyEvent ==
    /\ out.type \in {"start", "message"}
    /\ out.update.from.id = AdminId
    /\ IsSome(out.update.reply_to_message)

\* the calls of the last update into the admin chat and into guests' chats
AdminDirected == {i \in DOMAIN out.calls : out.calls[i].payload.chat_id = AdminId}
GuestDirected == {i \in DOMAIN out.calls : out.calls[i].payload.chat_id \in Guests}
SentTo(chat, text) ==
    \E i \in DOMAIN out.calls :
        /\ out.calls[i].payload.method = "sendMessage"
        /\ out.calls[i].payload.chat_id = chat
        /\ out.calls[i].payload.text = text
\* the only call of the last update sent this text to this chat
OnlySent(chat, text) == Len(out.calls) = 1 /\ SentTo(chat, text)

\* the sender's row as the handler read it from the store
SenderBlocked == IsSome(out.before) /\ Val(out.before).is_blocked # 0
SenderVerified == IsSome(out.before) /\ Val(out.before).is_verified # 0
SenderHasLanguage == IsSome(out.before) /\ Truthy_language(Val(out.before))
SenderLanguage == Val(Val(out.before).language)

\* the rows of the messages table whose key is k
MappingsFor(k) == {i \in DOMAIN messages : messages[i].admin_message_id = k}

(***************************************************************************)
(* C1  Exclusion.  When is_blocked is true in the sender's row as the       *)
(* handler of the message reads it, no call goes to the admin chat and the  *)
(* messages table gains no row, whatever the sender's verification and     *)
(* language.                                                               *)
(***************************************************************************)
C1_BlockedExcluded ==
    (out.type \in {"start", "message"} /\ SenderBlocked)
        => (AdminDirected = {} /\ out.saved = <<>>)

\* a blocked guest who is verified and has a language has sent a text
C1_Witness ==
    /\ GuestMessageEvent
    /\ SenderBlocked /\ SenderVerified /\ SenderHasLanguage
    /\ Truthy_text(out.update)

(***************************************************************************)
(* C2  Correlation round trip.  For every guest message delivered to the   *)
(* admin and recorded, resolving the id its delivery returned gives the    *)
(* sender's id and the message's own id; resolving an id under which       *)
(* nothing was recorded gives none.                                        *)
(***************************************************************************)
C2_RoundTrip ==
    /\ \A r \in relayed :
         getOriginalSender(messages, r.relayId)
           = Some([user_id |-> r.userId, guest_message_id |-> r.messageId])
    /\ \A k \in 1..(MaxAdminMsgId + 1) :
         (\A r \in relayed : r.relayId # k) => getOriginalSender(messages, k) = None

\* messages of two guests have been relayed, and an id of the admin chat is
\* not the id of a relayed message
C2_Witness ==
    /\ \E r1, r2 \in relayed : r1.userId # r2.userId /\ r1.messageId # r2.messageId
    /\ \E k \in 1..(MaxAdminMsgId + 1) : \A r \in relayed : r.relayId # k

(***************************************************************************)
(* C3  Admin reply routing.  As claimed: whenever the admin sends a        *)
(* message that replies to message k, a guest is sent something only if a  *)
(* mapping for k exists, and then only the user of that mapping; without a *)
(* mapping no guest is sent anything and the admin is sent the could-not-  *)
(* find notice.                                                            *)
(***************************************************************************)
ReplyRouted ==
    LET k == Val(out.update.reply_to_message)
    IN  /\ \A i \in GuestDirected :
              \E j \in MappingsFor(k) :
                  messages[j].user_id = out.calls[i].payload.chat_id
        /\ MappingsFor(k) = {} => (GuestDirected = {} /\ SentTo(AdminId, NotFoundText))

C3_AdminReplyRouting_AsClaimed == AdminReplyEvent => ReplyRouted

\* C3 as amended: the same of every reply of the admin whose text does not
\* start with /start (a reply that does is handled as the start command)
C3_AdminReplyRouting ==
    (AdminReplyEvent /\ ~IsStartCommand(out.update)) => ReplyRouted

\* with messages of two guests mapped, the admin's reply has been copied to a guest
C3_Witness ==
    /\ AdminReplyEvent /\ ~IsStartCommand(out.update)
    /\ GuestDirected # {}
    /\ \E i, j \in DOMAIN messages : messages[i].user_id # messages[j].user_id

(***************************************************************************)
(* C4  Admin reply outcome.  When the copy of the admin's reply to the     *)
(* guest fails, the admin is sent the failure notice and not the "Reply    *)
(* sent" acknowledgment; the acknowledgment is sent only when the copy     *)
(* succeeded.                                                              *)
(***************************************************************************)
C4_ReplyOutcome ==
    (AdminReplyEvent /\ GuestDirected # {}) =>
        LET copy == out.calls[1]
            acked == SentTo(AdminId, ReplySentText)
            notified == \E i \in AdminDirected :
                            StartsWith(out.calls[i].payload.text, FailedPrefix)
        IN  /\ copy.outcome # "ok" => (notified /\ ~acked)
            /\ acked => copy.outcome = "ok"

(***************************************************************************)
(* C5  Relay gating.  A guest's message reaches the admin only if the      *)
(* sender's stored row is verified, has a language and is not blocked; a   *)
(* first-contact or unverified sender who is not blocked is sent the       *)
(* verification prompt, a verified one without language the language       *)
(* prompt, and in both cases nothing goes to the admin and no mapping is   *)
(* recorded.                                                               *)
(***************************************************************************)
C5_Gate ==
    AdminDirected # {} => (SenderVerified /\ SenderHasLanguage /\ ~SenderBlocked)
C5_VerificationPrompt ==
    /\ OnlySent(out.update.from.id, GuestVerifyText)
    /\ AdminDirected = {} /\ out.saved = <<>>
C5_LanguagePrompt ==
    /\ OnlySent(out.update.from.id, LanguagePromptText)
    /\ AdminDirected = {} /\ out.saved = <<>>

C5_RelayGating ==
    GuestMessageEvent =>
        /\ C5_Gate
        /\ (~SenderBlocked /\ ~SenderVerified) => C5_VerificationPrompt
        /\ (~SenderBlocked /\ SenderVerified /\ ~SenderHasLanguage) => C5_LanguagePrompt

(***************************************************************************)
(* C6  Record after delivery.  A guest message records at most one         *)
(* mapping, and only when the delivery of its payload to the admin         *)
(* succeeded; the key is the id that delivery returned (the copy's, not    *)
(* the header's) and the row holds the sender's id and the message's id.   *)
(***************************************************************************)
C6_RecordAfterDelivery ==
    GuestMessageEvent =>
        /\ Len(out.saved) <= 1
        /\ out.saved # <<>> =>
             \E i \in PayloadCalls(out.update, out.calls) :
                 /\ out.calls[i].outcome = "ok"
                 /\ out.saved[1] = [admin_message_id |-> out.calls[i].result_id,
                                    user_id |-> out.update.from.id,
                                    guest_message_id |-> out.update.message_id]
                 /\ \A j \in DOMAIN out.calls \ {i} :
                        out.calls[j].result_id # out.saved[1].admin_message_id

\* a sticker has been relayed, header and copy both delivered, and recorded
C6_Witness ==
    /\ GuestMessageEvent
    /\ Len(out.calls) = 2
    /\ out.calls[1].outcome = "ok" /\ out.calls[2].outcome = "ok"
    /\ Len(out.saved) = 1

(***************************************************************************)
(* C7  No mapping on failed delivery.  If any delivery to the admin for a  *)
(* guest message fails (the send of a text, the copy of a media, the       *)
(* header or the copy of another message), no mapping is recorded.         *)
(***************************************************************************)
C7_NoMappingOnFailure ==
    (GuestMessageEvent /\ \E i \in AdminDirected : out.calls[i].outcome # "ok")
        => out.saved = <<>>

(***************************************************************************)
(* C8  Translation gating.  Relaying a guest's text invokes the            *)
(* translation adapter if and only if the sender's stored language is not  *)
(* "zh"; relaying a media or another message never invokes it.             *)
(***************************************************************************)
C8_TranslationGating ==
    (GuestMessageEvent /\ AdminDirected # {}) =>
        IF Truthy_text(out.update)
        THEN (out.trans # <<>>) <=> (SenderLanguage # "zh")
        ELSE out.trans = <<>>

\* a text of a guest whose language is "zh" has been relayed without translation
C8_Witness ==
    /\ GuestMessageEvent /\ AdminDirected # {}
    /\ Truthy_text(out.update)
    /\ SenderLanguage = "zh"
    /\ out.trans = <<>>

(***************************************************************************)
(* C9  Translation service unset.  Without translation credentials the     *)
(* text delivered to the admin for a guest's text is the header, a blank   *)
(* line and the original text, and nothing else, for every language.       *)
(***************************************************************************)
C9_UnsetServiceAddsNothing ==
    (~hasKey /\ GuestMessageEvent /\ AdminDirected # {} /\ Truthy_text(out.update)) =>
        out.calls[1].payload.text
          = Header(out.update.from, SenderLanguage) \o "\n\n" \o Val(out.update.text)

(***************************************************************************)
(* C10  Caption bound.  The caption of a relayed media message has at most *)
(* 1024 characters: it is header + blank line + original caption when that *)
(* has at most 1024, and else its first 1021 characters followed by "...". *)
(***************************************************************************)
C10_CaptionBound ==
    (GuestMessageEvent /\ AdminDirected # {} /\ isMedia(out.update)) =>
        LET caption == Val(out.calls[1].payload.caption)
            original == IF IsSome(out.update.caption) THEN Val(out.update.caption) ELSE ""
            whole == Header(out.update.from, SenderLanguage) \o "\n\n" \o original
        IN  /\ Len(caption) <= 1024
            /\ caption = IF Len(whole) <= 1024 THEN whole
                         ELSE SubSeq(whole, 1, 1021) \o "..."

\* a photo whose header and caption exceed the limit has been relayed
C10_Witness ==
    /\ GuestMessageEvent /\ AdminDirected # {} /\ isMedia(out.update)
    /\ IsSome(out.update.caption)
    /\ Len(Header(out.update.from, SenderLanguage)) + 2 + Len(Val(out.update.caption)) > 1024
    /\ Len(Val(out.calls[1].payload.caption)) = 1024

(***************************************************************************)
(* Onboarding: the sender's row just before and just after the handler's   *)
(* statement on it, and the fields of a row that onboarding is about       *)
(***************************************************************************)
SenderPrior == out.prior
SenderAfter == out.after
Onboarding(row) ==
    [is_verified |-> row.is_verified, language |-> row.language,
     is_blocked |-> row.is_blocked]
VerifyEvent == out.type = "callback" /\ out.update.data = "verify_human"
LanguageEvent == out.type = "callback" /\ StartsWith(out.update.data, "lang_")

(***************************************************************************)
(* C11  verify_human is idempotent, is_verified is monotonic.  No step     *)
(* takes a user's is_verified from true to false, and a verify_human of a  *)
(* user who is verified already leaves is_verified, language and           *)
(* is_blocked as they were.                                                *)
(***************************************************************************)
C11_VerifyIdempotent ==
    [][/\ \A u \in UserIds :
            (IsSome(users[u]) /\ Val(users[u]).is_verified # 0)
                => (IsSome(users'[u]) /\ Val(users'[u]).is_verified # 0)
       /\ \A p \in DOMAIN units :
            LET u == units[p].update.from.id
            IN  (/\ units[p].pc = "update" /\ units'[p].pc # "update"
                 /\ units[p].update.data = "verify_human"
                 /\ IsSome(users[u]) /\ Val(users[u]).is_verified # 0)
                    => Onboarding(Val(users'[u])) = Onboarding(Val(users[u]))]_vars

\* verify_human has been replayed for a verified user who has a language
C11_Witness ==
    /\ VerifyEvent
    /\ SenderVerified /\ SenderHasLanguage
    /\ Len(out.calls) = 3

(***************************************************************************)
(* C12  start is idempotent.  A /start of a user who has a row leaves      *)
(* is_verified, language and is_blocked unchanged; a /start of a user      *)
(* without a row creates the row, not verified, and sends the verification *)
(* prompt.  Every /start makes one call, chosen by the row as stored: the  *)
(* verification prompt when not verified, the language prompt when         *)
(* verified without language, the welcome when verified with a language.   *)
(***************************************************************************)
C12_StartIdempotent ==
    out.type = "start" =>
        LET u == out.update.from.id
            verified == Val(out.userData).is_verified # 0
            chosen == Truthy_language(Val(out.userData))
        IN  /\ IsSome(SenderAfter)
            /\ IF IsSome(out.before)
               THEN Onboarding(Val(SenderAfter)) = Onboarding(Val(SenderPrior))
               ELSE /\ Onboarding(Val(SenderAfter))
                         = [is_verified |-> 0, language |-> None, is_blocked |-> 0]
                    /\ OnlySent(u, StartVerifyText)
            /\ IsSome(out.userData)
            /\ ~verified => OnlySent(u, StartVerifyText)
            /\ (verified /\ ~chosen) => OnlySent(u, LanguagePromptText)
            /\ (verified /\ chosen) => OnlySent(u, WelcomeText)

(***************************************************************************)
(* C13  Blocked suppresses onboarding.  A start, verify_human or           *)
(* select_language of a user whose is_blocked is true changes neither the  *)
(* user's is_verified nor the language, and makes no call to the platform  *)
(* for that user (no prompt, welcome or confirmation).                     *)
(***************************************************************************)
C13_BlockedSuppressesOnboarding ==
    ((out.type = "start" \/ VerifyEvent \/ LanguageEvent) /\ SenderBlocked) =>
        /\ Onboarding(Val(SenderAfter)) = Onboarding(Val(SenderPrior))
        /\ out.calls = <<>>

(***************************************************************************)
(* C15  select_language stores the code verbatim.  For an action string    *)
(* "lang_" + code of a user who has a row, the stored language afterwards  *)
(* is code, and the confirmation names the table's display name of code    *)
(* when the table has it and code itself otherwise.                        *)
(***************************************************************************)
\* the code of an action string "lang_" + code
CodeOf(data) == SubSeq(data, Len("lang_") + 1, Len(data))

C15_LanguageVerbatim ==
    (LanguageEvent /\ IsSome(out.before)) =>
        LET code == CodeOf(out.update.data)
            name == IF code \in DOMAIN SUPPORTED_LANGS THEN SUPPORTED_LANGS[code] ELSE code
        IN  /\ Val(SenderAfter).language = Some(code)
            /\ Len(out.calls) >= 2 =>
                 /\ out.calls[2].payload.method = "editMessageText"
                 /\ out.calls[2].payload.text
                      = "# Language set to " \o name \o ". You can now send messages."

(***************************************************************************)
(* C16  Language implies verified.  Every row of the users table with a    *)
(* set (non-empty) language has is_verified true.                          *)
(***************************************************************************)
C16_LanguageImpliesVerified ==
    \A u \in UserIds :
        (IsSome(users[u]) /\ Truthy_language(Val(users[u])))
            => Val(users[u]).is_verified # 0

(***************************************************************************)
(* C18  Commit before acknowledgment.  After a verify_human or a           *)
(* select_language of a user who has a row, the row has is_verified = 1,   *)
(* or the language the handler read from the action string, whatever came  *)
(* of the calls to the platform: also when the first call threw and the    *)
(* handler made no other.  The UPDATE is made before the first call.       *)
(***************************************************************************)
C18_CommitBeforeAck ==
    /\ (VerifyEvent /\ IsSome(out.before)) => Val(SenderAfter).is_verified = 1
    /\ (LanguageEvent /\ IsSome(out.before))
          => Val(SenderAfter).language = Some(Split(out.update.data, "_")[2])
    \* a handler that is at a call, its first included, has made its UPDATE
    /\ \A p \in DOMAIN units :
          (units[p].type = "callback" /\ units[p].pc = "send" /\ IsSome(units[p].prior))
              => LET row == Val(users[units[p].update.from.id])
                     made == Val(units[p].after)
                 IN  IF units[p].update.data = "verify_human"
                     THEN made.is_verified = 1 /\ row.is_verified = 1
                     ELSE made.language = Some(Split(units[p].update.data, "_")[2])

\* the acknowledgment of the verify_human of an unverified user threw, no
\* other call was made, and the user is verified
C18_Witness ==
    /\ VerifyEvent
    /\ IsSome(out.before) /\ ~SenderVerified
    /\ out.threw /\ Len(out.calls) = 1
    /\ Val(SenderAfter).is_verified = 1

(***************************************************************************)
(* C19  Forwarding strategy.  A guest message that the relay handled       *)
(* without an exception is one of Text, Media, Other, and the calls made   *)
(* for it all go to the admin chat: Text - one sendMessage of header,      *)
(* blank line, the text, and the translation block when the language is    *)
(* not "zh"; Media - one copyMessage of the message with the new caption,  *)
(* no header message; Other - one sendMessage of the header then one       *)
(* copyMessage of the message without caption.                             *)
(***************************************************************************)
C19_ForwardingStrategy ==
    (GuestMessageEvent /\ AdminDirected # {} /\ ~out.threw) =>
        LET m == out.update
            header == Header(m.from, SenderLanguage)
            IsCopy(c) == /\ c.payload.method = "copyMessage"
                         /\ c.payload.chat_id = AdminId
                         /\ c.payload.from_chat_id = m.from.id
                         /\ c.payload.message_id = m.message_id
        IN  IF IsSome(m.text) /\ Val(m.text) # ""
            THEN LET t == Val(m.text)
                     plain == header \o "\n\n" \o t
                 IN  /\ Len(out.calls) = 1
                     /\ out.calls[1].payload.method = "sendMessage"
                     /\ out.calls[1].payload.chat_id = AdminId
                     /\ out.calls[1].payload.text \in
                          (IF SenderLanguage # "zh"
                           THEN {plain \o "\n\n<b>Translation:</b>\n" \o x :
                                    x \in {t, Translated(t)}}
                           ELSE {plain})
            ELSE IF IsSome(m.media)
            THEN /\ Len(out.calls) = 1
                 /\ IsCopy(out.calls[1])
                 /\ IsSome(out.calls[1].payload.caption)
                 /\ StartsWith(Val(out.calls[1].payload.caption), header)
            ELSE /\ Len(out.calls) = 2
                 /\ out.calls[1].payload.method = "sendMessage"
                 /\ out.calls[1].payload.chat_id = AdminId
                 /\ out.calls[1].payload.text = header
                 /\ IsCopy(out.calls[2])
                 /\ out.calls[2].payload.caption = None

\* a photo with a caption has been copied to the admin in one call
C19_Witness ==
    /\ GuestMessageEvent /\ ~out.threw
    /\ IsSome(out.update.media) /\ out.update.caption = Some("cat")
    /\ Len(out.calls) = 1
    /\ out.calls[1].payload.method = "copyMessage"
    /\ out.calls[1].outcome = "ok"

(***************************************************************************)
(* C20  Ready is terminal.  Once a user is verified and has a language, a  *)
(* start, verify_human, select_language or message leaves the user         *)
(* verified and with a language; the language changes only by a            *)
(* select_language of that user.                                           *)
(***************************************************************************)
IsReady(row) == row.is_verified # 0 /\ Truthy_language(row)

C20_ReadyTerminal ==
    [][\A u \in UserIds :
          (IsSome(users[u]) /\ IsReady(Val(users[u])))
              => /\ IsSome(users'[u]) /\ IsReady(Val(users'[u]))
                 /\ Val(users'[u]).language # Val(users[u]).language
                      => \E p \in DOMAIN units :
                             /\ units[p].pc = "update" /\ units'[p].pc # "update"
                             /\ StartsWith(units[p].update.data, "lang_")
                             /\ units[p].update.from.id = u]_vars

(***************************************************************************)
(* C14  Correlation key uniqueness.  No two rows of the messages table     *)
(* have the same admin_message_id: a record whose key the table holds      *)
(* already fails and adds no row.                                          *)
(***************************************************************************)
C14_KeyUnique ==
    \A i, j \in DOMAIN messages :
        i # j => messages[i].admin_message_id # messages[j].admin_message_id

(***************************************************************************)
(* C17  Concurrent upsert.  Of the updates of one unseen user processed    *)
(* concurrently, each ends with the user's row in the table and with the   *)
(* call of its prompt made, none aborted by an error of the store.         *)
(***************************************************************************)
C17_ConcurrentUpsert ==
    (out.type \in {"start", "message"} /\ out.update.from.id \in Guests) =>
        /\ IsSome(users[out.update.from.id])
        /\ out.error # "store"
        /\ Len(out.calls) = 1

=============================================================================
